---- MODULE Spec2Model ----
(***************************************************************************)
(* Ticket lifecycle of TicketSender (src/sender.js, lines 1-513).          *)
(*                                                                         *)
(* The program runs on one JavaScript event loop.  Every action below is   *)
(* one task of that loop: an event dispatch (channelCreate, messageCreate),*)
(* a timer callback, or the resumption of an async function after an       *)
(* awaited send/fetch settles.  A task runs to its next await without      *)
(* interleaving, so each action takes the handler from one await to the    *)
(* next (promise continuations that need no I/O run inside the same task). *)
(***************************************************************************)
EXTENDS Naturals, Sequences, FiniteSets

\* ------------------------------------------------------------------ bounds
\* platform events (channelCreate, messageCreate) that reach a handler and
\* change the controller's state; every counter of the model is bounded by it
MaxEvents == 4

\* ---------------------------------------------------------------- universe
Channels == {"chA", "chB", "chX"}
Categories == {"cat1", "cat2"}
\* channel.parentId: chA and chB are created under cat1, chX under cat2
parentId(c) == IF c = "chX" THEN "cat2" ELSE "cat1"
Bots == {"bot"}
Authors == {"u1", "bot"}
MentionLists == {<< >>, <<"u1">>}

\* 40 hexadecimal characters, the quantifier of the address pattern
AddressDigits == 40
HexChars == {"0", "1", "2", "3", "4", "5", "6", "7", "8", "9",
             "a", "b", "c", "d", "e", "f", "A", "B", "C", "D", "E", "F"}
\* Texts and content types are sequences of characters; Null stands for a
\* null/undefined field.
Null == <<"null">>
Hello == <<"h", "i">>
Address == <<"0", "x">> \o [i \in 1..AddressDigits |-> IF i % 2 = 0 THEN "A" ELSE "9"]
Contents == {Null, Hello, Address}
ImagePrefix == <<"i", "m", "a", "g", "e", "/">>
ImagePng == ImagePrefix \o <<"p", "n", "g">>
TextPlain == <<"t", "e", "x", "t", "/", "p", "l", "a", "i", "n">>
AttachmentLists == {<< >>, <<ImagePng>>, <<TextPlain>>, <<Null>>, <<TextPlain, ImagePng>>}

Messages == [author : Authors, mentions : MentionLists,
             content : Contents, attachments : AttachmentLists]

VARIABLES
    TICKET_CATEGORY,   \* this.TICKET_CATEGORY ("undefined": TICKET_CAT is not set)
    listening,         \* init() has registered the channelCreate and messageCreate listeners
    DEBUG_MODE,        \* this.DEBUG_MODE
    ignored,           \* channels with a 'Channel not in target category, ignoring' debug line
    activeTickets,     \* this.activeTickets: channel id -> ticket object (0: no entry)
    heap,              \* the ticketData objects ever allocated, by object identity
    pendingClosures,   \* keys of this.pendingClosures
    stats,             \* this.stats
    creations,         \* the handleChannelCreation invocations past the category check
    formSends,         \* per ticket object: handleUserMessage invocations awaiting the FORM_MESSAGE send
    closureTimers,     \* per channel: closure setTimeout callbacks not yet fired
    closeFetching,     \* per channel: closeTicket invocations awaiting channels.fetch
    closeSending,      \* per channel: closeTicket invocations awaiting channel.send('$close')
    sent,              \* per channel: messages the platform accepted from the controller
    events,            \* platform events handled so far that changed the state
    returned,          \* what the caller of logStatus / getStats / getActiveTicketsInfo holds
    probe,             \* a message handed to the pure helpers, and what they answer
    job                \* the run of processSheetAndExport: its locals and what it has sent

vars == <<TICKET_CATEGORY, listening, DEBUG_MODE, returned, probe, job, ignored, activeTickets, heap, pendingClosures, stats, creations,
          formSends, closureTimers, closeFetching, closeSending, sent, events>>

\* ------------------------------------------------------------ pure helpers
\* message.author.bot
IsBot(m) == m.author \in Bots

\* message.content.match(/0x[a-fA-F0-9]{40}/g): the start positions of the matches
\* (non-overlapping, leftmost first, as a global regex scan yields them)
MatchesAt(s, i) ==
    /\ i + 1 + AddressDigits <= Len(s)
    /\ s[i] = "0"
    /\ s[i + 1] = "x"
    /\ \A k \in 1..AddressDigits : s[i + 1 + k] \in HexChars

RECURSIVE ScanFrom(_, _)
ScanFrom(s, i) ==
    IF i > Len(s) THEN << >>
    ELSE IF MatchesAt(s, i) THEN <<i>> \o ScanFrom(s, i + 2 + AddressDigits)
    ELSE ScanFrom(s, i + 1)

evmMatches(content) == ScanFrom(content, 1)

\* the address check counting a text with several matches as no evidence
DetectAddressSingle(content) == Len(evmMatches(content)) = 1

\* hasNewEvmAddress after lines 317-336
DetectAddress(content) == Len(evmMatches(content)) > 0

\* attachment.contentType && attachment.contentType.startsWith('image/')
startsWith(s, prefix) ==
    /\ Len(s) >= Len(prefix)
    /\ \A i \in 1..Len(prefix) : s[i] = prefix[i]

IsImageType(ct) == ct # Null /\ Len(ct) > 0 /\ startsWith(ct, ImagePrefix)

\* the image check looking at the first attachment only
DetectImageFirstOnly(attachments) ==
    /\ Len(attachments) > 0
    /\ IsImageType(attachments[1])

\* hasNewImage after lines 338-369
DetectImage(attachments) ==
    /\ Len(attachments) > 0
    /\ \E i \in 1..Len(attachments) : IsImageType(attachments[i])

\* extractUserTag preferring the author to the mentions
extractUserTagAuthorFirst(m) == "<@" \o m.author \o ">"

\* extractUserTag
extractUserTag(m) ==
    IF Len(m.mentions) > 0 THEN "<@" \o m.mentions[1] \o ">"
    ELSE "<@" \o m.author \o ">"

\* ticketData with the image requirement preset
NewTicketImagePreset(c, tag) ==
    [channelId |-> c, userTag |-> tag, awaitingResponse |-> TRUE,
     hasEvmAddress |-> FALSE, hasImage |-> TRUE, completedAt |-> FALSE,
     followUps |-> 0, timersScheduled |-> 0]

\* the ticketData literal of handleChannelCreation.  completedAt is TRUE once
\* the field is set; followUps counts the assignments of formMessageId (one
\* per FORM_MESSAGE the platform accepted for this ticket, line 394) and
\* timersScheduled the closure setTimeout calls made for it (line 408).
NewTicket(c, tag) ==
    [channelId |-> c, userTag |-> tag, awaitingResponse |-> TRUE,
     hasEvmAddress |-> FALSE, hasImage |-> FALSE, completedAt |-> FALSE,
     followUps |-> 0, timersScheduled |-> 0]

TicketIds == 1..Len(heap)
CreationIds == 1..Len(creations)

\* a send for channel c is outstanding: a greeting (line 177), a follow-up
\* (line 385) or a closure command (line 459) awaits the platform
SendOutstanding(c) ==
    \/ \E i \in CreationIds : creations[i].ch = c /\ creations[i].pc = "sending"
    \/ \E t \in TicketIds : heap[t].channelId = c /\ formSends[t] > 0
    \/ closeSending[c] > 0

\* nothing is held by a caller of the monitoring methods
NoValue ==
    [kind |-> "none", live |-> FALSE, written |-> FALSE,
     stats |-> [ticketsCreated |-> 0, ticketsCompleted |-> 0, ticketsClosed |-> 0,
                errors |-> 0, activeTickets |-> 0, pendingClosures |-> 0],
     tickets |-> [c \in {} |-> 0]]

\* no message is under analysis
NoProbe ==
    [step |-> "none", tag |-> "", flag |-> FALSE,
     message |-> [author |-> "u1", mentions |-> << >>, content |-> << >>, attachments |-> << >>]]

\* no export job is running
NoJob ==
    [pc |-> "idle", rows |-> << >>, valid |-> << >>, next |-> 0, final |-> << >>,
     requests |-> {}, marks |-> {}, exportValues |-> << >>, exportRowIndices |-> << >>,
     currentExportColor |-> "none", file |-> << >>, summaries |-> 0]

\* ------------------------------------------------------------------- init
\* what the constructor sets up, whatever the configuration
Constructed ==
    /\ activeTickets = [c \in Channels |-> 0]
    /\ heap = << >>
    /\ pendingClosures = {}
    /\ stats = [ticketsCreated |-> 0, ticketsCompleted |-> 0, ticketsClosed |-> 0, errors |-> 0]
    /\ creations = << >>
    /\ formSends = << >>
    /\ closureTimers = [c \in Channels |-> 0]
    /\ closeFetching = [c \in Channels |-> 0]
    /\ closeSending = [c \in Channels |-> 0]
    /\ sent = [c \in Channels |-> [greeting |-> 0, form |-> 0, close |-> 0]]
    /\ events = 0
    /\ ignored = {}
    /\ returned = NoValue

\* the state after the ready handler ran with TICKET_CAT=cat1 and DEBUG_MODE
\* unset: new TicketSender(client) and init()
Init ==
    /\ TICKET_CATEGORY = "cat1"
    /\ listening = TRUE
    /\ DEBUG_MODE = FALSE
    /\ Constructed
    /\ probe = NoProbe
    /\ job = NoJob

\* ---------------------------------------------------------------- actions
\* handleChannelCreation without the ticketsCreated++ of line 148 (the
\* counter left to the registration of the ticket)
ChannelCreateUncounted(c, parent) ==
    /\ listening
    /\ IF parent # TICKET_CATEGORY
       THEN /\ ignored' = IF DEBUG_MODE THEN ignored \cup {c} ELSE ignored
            /\ UNCHANGED <<TICKET_CATEGORY, listening, DEBUG_MODE, returned, probe, job, activeTickets, heap, pendingClosures,
                           stats, creations, formSends, closureTimers, closeFetching,
                           closeSending, sent, events>>
       ELSE
         /\ events < MaxEvents
         /\ events' = events + 1
         /\ creations' = Append(creations,
                [ch |-> c, pc |-> "waiting", listener |-> TRUE, bot |-> FALSE, userTag |-> ""])
         /\ UNCHANGED <<TICKET_CATEGORY, listening, DEBUG_MODE, returned, probe, job, ignored, activeTickets, heap,
                        pendingClosures, formSends, stats,
                        closureTimers, closeFetching, closeSending, sent>>

\* handleChannelCreation without the category check of line 139
ChannelCreateAnyCategory(c, parent) ==
    /\ listening
    /\ events < MaxEvents
    /\ events' = events + 1
    /\ stats' = [stats EXCEPT !.ticketsCreated = @ + 1]
    /\ creations' = Append(creations,
           [ch |-> c, pc |-> "waiting", listener |-> TRUE, bot |-> FALSE, userTag |-> ""])
    /\ UNCHANGED <<TICKET_CATEGORY, listening, DEBUG_MODE, returned, probe, job, ignored, activeTickets, heap,
                   pendingClosures, formSends,
                   closureTimers, closeFetching, closeSending, sent>>

\* channelCreate dispatched only while no send is outstanding anywhere: the
\* event waits for the sends in flight
ChannelCreateAfterSends(c, parent) ==
    /\ listening
    /\ \A a \in Channels : ~SendOutstanding(a)
    /\ IF parent # TICKET_CATEGORY
       THEN /\ ignored' = IF DEBUG_MODE THEN ignored \cup {c} ELSE ignored
            /\ UNCHANGED <<TICKET_CATEGORY, listening, DEBUG_MODE, returned, probe, job, activeTickets, heap, pendingClosures,
                           stats, creations, formSends, closureTimers, closeFetching,
                           closeSending, sent, events>>
       ELSE
         /\ events < MaxEvents
         /\ events' = events + 1
         /\ stats' = [stats EXCEPT !.ticketsCreated = @ + 1]
         /\ creations' = Append(creations,
                [ch |-> c, pc |-> "waiting", listener |-> TRUE, bot |-> FALSE, userTag |-> ""])
         /\ UNCHANGED <<TICKET_CATEGORY, listening, DEBUG_MODE, returned, probe, job, ignored, activeTickets, heap,
                        pendingClosures, formSends,
                        closureTimers, closeFetching, closeSending, sent>>

\* client.on('channelCreate') -> handleChannelCreation, up to the await of
\* waitForFirstMessage (which installs the timeout and the message listener)
ChannelCreate(c, parent) ==
    /\ listening
    /\ IF parent # TICKET_CATEGORY
       THEN /\ ignored' = IF DEBUG_MODE THEN ignored \cup {c} ELSE ignored
            /\ UNCHANGED <<TICKET_CATEGORY, listening, DEBUG_MODE, returned, probe, job, activeTickets, heap, pendingClosures,
                           stats, creations, formSends, closureTimers, closeFetching,
                           closeSending, sent, events>>
       ELSE
         /\ events < MaxEvents
         /\ events' = events + 1
         /\ stats' = [stats EXCEPT !.ticketsCreated = @ + 1]
         /\ creations' = Append(creations,
                [ch |-> c, pc |-> "waiting", listener |-> TRUE, bot |-> FALSE, userTag |-> ""])
         /\ UNCHANGED <<TICKET_CATEGORY, listening, DEBUG_MODE, returned, probe, job, ignored, activeTickets, heap,
                        pendingClosures, formSends,
                        closureTimers, closeFetching, closeSending, sent>>

\* handleUserMessage without the awaitingResponse check of lines 297-304
HandleUserMessageSyncNoAwaitingCheck(c, m) ==
    LET t == activeTickets[c]
        same == [heap |-> heap, formSends |-> formSends, errors |-> 0]
    IN  IF IsBot(m) THEN same
        ELSE IF t = 0 THEN same
        ELSE IF m.content = Null THEN [same EXCEPT !.errors = 1]
        ELSE LET hasNewEvmAddress == DetectAddress(m.content)
                 hasNewImage == DetectImage(m.attachments)
                 merged == [heap EXCEPT
                     ![t].hasEvmAddress = IF hasNewEvmAddress THEN TRUE ELSE @,
                     ![t].hasImage = IF hasNewImage THEN TRUE ELSE @]
             IN  IF merged[t].hasEvmAddress /\ merged[t].hasImage
                 THEN [heap |-> merged,
                       formSends |-> [formSends EXCEPT ![t] = @ + 1],
                       errors |-> 0]
                 ELSE [same EXCEPT !.heap = merged]

\* handleUserMessage without the author.bot check of lines 280-286
HandleUserMessageSyncNoBotCheck(c, m) ==
    LET t == activeTickets[c]
        same == [heap |-> heap, formSends |-> formSends, errors |-> 0]
    IN  IF t = 0 THEN same
        ELSE IF ~heap[t].awaitingResponse THEN same
        ELSE IF m.content = Null THEN [same EXCEPT !.errors = 1]
        ELSE LET hasNewEvmAddress == DetectAddress(m.content)
                 hasNewImage == DetectImage(m.attachments)
                 merged == [heap EXCEPT
                     ![t].hasEvmAddress = IF hasNewEvmAddress THEN TRUE ELSE @,
                     ![t].hasImage = IF hasNewImage THEN TRUE ELSE @]
             IN  IF merged[t].hasEvmAddress /\ merged[t].hasImage
                 THEN [heap |-> merged,
                       formSends |-> [formSends EXCEPT ![t] = @ + 1],
                       errors |-> 0]
                 ELSE [same EXCEPT !.heap = merged]

\* handleUserMessage with the requirements check of line 380 written with
\* || instead of &&: the follow-up is sent as soon as one flag is true
HandleUserMessageSyncEitherFlag(c, m) ==
    LET t == activeTickets[c]
        same == [heap |-> heap, formSends |-> formSends, errors |-> 0]
    IN  IF IsBot(m) THEN same
        ELSE IF t = 0 THEN same
        ELSE IF ~heap[t].awaitingResponse THEN same
        ELSE IF m.content = Null THEN [same EXCEPT !.errors = 1]
        ELSE LET hasNewEvmAddress == DetectAddress(m.content)
                 hasNewImage == DetectImage(m.attachments)
                 merged == [heap EXCEPT
                     ![t].hasEvmAddress = IF hasNewEvmAddress THEN TRUE ELSE @,
                     ![t].hasImage = IF hasNewImage THEN TRUE ELSE @]
             IN  IF merged[t].hasEvmAddress \/ merged[t].hasImage
                 THEN [heap |-> merged,
                       formSends |-> [formSends EXCEPT ![t] = @ + 1],
                       errors |-> 0]
                 ELSE [same EXCEPT !.heap = merged]

\* handleUserMessage from its entry to its first await (or its return):
\* the ticket heap, the suspended sends and the number of errors logged
HandleUserMessageSync(c, m) ==
    LET t == activeTickets[c]
        same == [heap |-> heap, formSends |-> formSends, errors |-> 0]
    IN  IF IsBot(m) THEN same
        ELSE IF t = 0 THEN same
        ELSE IF ~heap[t].awaitingResponse THEN same
        ELSE IF m.content = Null THEN [same EXCEPT !.errors = 1]
        ELSE LET hasNewEvmAddress == DetectAddress(m.content)
                 hasNewImage == DetectImage(m.attachments)
                 merged == [heap EXCEPT
                     ![t].hasEvmAddress = IF hasNewEvmAddress THEN TRUE ELSE @,
                     ![t].hasImage = IF hasNewImage THEN TRUE ELSE @]
             IN  IF merged[t].hasEvmAddress /\ merged[t].hasImage
                 THEN [heap |-> merged,
                       formSends |-> [formSends EXCEPT ![t] = @ + 1],
                       errors |-> 0]
                 ELSE [same EXCEPT !.heap = merged]

\* messageHandler without the channel id check of line 229: any message
\* resolves the wait
MessageHandlerAnyChannel(cr, c, m) ==
    IF ~cr.listener THEN cr
    ELSE IF cr.pc # "waiting" THEN [cr EXCEPT !.listener = FALSE]
    ELSE IF m.content = Null THEN [cr EXCEPT !.listener = FALSE, !.pc = "failed"]
    ELSE [cr EXCEPT !.listener = FALSE, !.pc = "sending",
                    !.bot = IsBot(m), !.userTag = extractUserTag(m)]

\* messageHandler written so that a message arriving after the timeout still
\* hands the message to handleChannelCreation (the wait settles twice)
MessageHandlerSettlesTwice(cr, c, m) ==
    IF cr.ch # c \/ ~cr.listener THEN cr
    ELSE IF cr.pc \notin {"waiting", "timedout"} THEN [cr EXCEPT !.listener = FALSE]
    ELSE IF m.content = Null THEN [cr EXCEPT !.listener = FALSE, !.pc = "failed"]
    ELSE [cr EXCEPT !.listener = FALSE, !.pc = "sending",
                    !.bot = IsBot(m), !.userTag = extractUserTag(m)]

\* the messageHandler of waitForFirstMessage for invocation cr, and the
\* continuation of handleChannelCreation up to the await of channel.send
MessageHandler(cr, c, m) ==
    IF cr.ch # c \/ ~cr.listener THEN cr
    ELSE IF cr.pc # "waiting" THEN [cr EXCEPT !.listener = FALSE]
    ELSE IF m.content = Null THEN [cr EXCEPT !.listener = FALSE, !.pc = "failed"]
    ELSE [cr EXCEPT !.listener = FALSE, !.pc = "sending",
                    !.bot = IsBot(m), !.userTag = extractUserTag(m)]

\* client emits messageCreate: the listener of init runs first, then the
\* listeners of the pending waits in registration order.  A message that no
\* listener reacts to leaves the state as it is and is not counted in events.
MessageCreate(c, m) ==
    LET um == HandleUserMessageSync(c, m)
        after == [i \in CreationIds |-> MessageHandler(creations[i], c, m)]
        thrown == Cardinality({i \in CreationIds :
                      creations[i].pc = "waiting" /\ after[i].pc = "failed"})
    IN  /\ listening
        /\ heap' = um.heap
        /\ formSends' = um.formSends
        /\ creations' = after
        /\ stats' = [stats EXCEPT !.errors = @ + um.errors + thrown]
        /\ IF <<heap', formSends', creations', stats'>> = <<heap, formSends, creations, stats>>
           THEN UNCHANGED events
           ELSE events < MaxEvents /\ events' = events + 1
        /\ UNCHANGED <<TICKET_CATEGORY, listening, DEBUG_MODE, returned, probe, job, ignored, activeTickets, pendingClosures,
                       closureTimers, closeFetching, closeSending, sent>>

\* the timeout callback of a wait whose timer is not cleared by the message
\* (no clearTimeout at line 236) and whose resolve(null) still takes effect
FirstMessageTimeoutNotCleared(i) ==
    /\ creations[i].pc \in {"waiting", "sending"}
    /\ creations' = [creations EXCEPT ![i].pc = "timedout"]
    /\ UNCHANGED <<events, TICKET_CATEGORY, listening, DEBUG_MODE, returned, probe, job, ignored, activeTickets, heap, pendingClosures, stats, formSends,
                   closureTimers, closeFetching, closeSending, sent>>

\* the timeout callback logging the timeout without resolve(null)
FirstMessageTimeoutLogsOnly(i) ==
    /\ creations[i].pc = "waiting"
    /\ UNCHANGED <<events, TICKET_CATEGORY, listening, DEBUG_MODE, returned, probe, job, ignored, activeTickets, heap, pendingClosures, stats, formSends,
                   closureTimers, closeFetching, closeSending, sent, creations>>

\* the setTimeout callback of waitForFirstMessage: resolve(null), and
\* handleChannelCreation returns
FirstMessageTimeout(i) ==
    /\ creations[i].pc = "waiting"
    /\ creations' = [creations EXCEPT ![i].pc = "timedout"]
    /\ UNCHANGED <<events, TICKET_CATEGORY, listening, DEBUG_MODE, returned, probe, job, ignored, activeTickets, heap, pendingClosures, stats, formSends,
                   closureTimers, closeFetching, closeSending, sent>>

\* handleChannelCreation registering the ticket with the address requirement
\* already met, as if a message seen during the greeting send had been counted
GreetingSendDoneAddressCounted(i, ok) ==
    /\ creations[i].pc = "sending"
    /\ IF ok
       THEN /\ heap' = Append(heap, [NewTicket(creations[i].ch, creations[i].userTag)
                                        EXCEPT !.hasEvmAddress = TRUE])
            /\ formSends' = Append(formSends, 0)
            /\ activeTickets' = [activeTickets EXCEPT ![creations[i].ch] = Len(heap) + 1]
            /\ creations' = [creations EXCEPT ![i].pc = "registered"]
            /\ sent' = [sent EXCEPT ![creations[i].ch].greeting = @ + 1]
            /\ UNCHANGED stats
       ELSE /\ stats' = [stats EXCEPT !.errors = @ + 1]
            /\ creations' = [creations EXCEPT ![i].pc = "failed"]
            /\ UNCHANGED <<heap, formSends, activeTickets, sent>>
    /\ UNCHANGED <<events, TICKET_CATEGORY, listening, DEBUG_MODE, returned, probe, job, ignored, pendingClosures, closureTimers, closeFetching, closeSending>>

\* handleChannelCreation tracking the ticket although the greeting send threw
GreetingSendDoneTracksOnFailure(i, ok) ==
    /\ creations[i].pc = "sending"
    /\ heap' = Append(heap, NewTicket(creations[i].ch, creations[i].userTag))
    /\ formSends' = Append(formSends, 0)
    /\ activeTickets' = [activeTickets EXCEPT ![creations[i].ch] = Len(heap) + 1]
    /\ IF ok
       THEN /\ creations' = [creations EXCEPT ![i].pc = "registered"]
            /\ sent' = [sent EXCEPT ![creations[i].ch].greeting = @ + 1]
            /\ UNCHANGED stats
       ELSE /\ stats' = [stats EXCEPT !.errors = @ + 1]
            /\ creations' = [creations EXCEPT ![i].pc = "failed"]
            /\ UNCHANGED sent
    /\ UNCHANGED <<events, TICKET_CATEGORY, listening, DEBUG_MODE, returned, probe, job, ignored, pendingClosures, closureTimers, closeFetching, closeSending>>

\* channel.send(INITIAL_MESSAGE) settles and handleChannelCreation resumes
GreetingSendDone(i, ok) ==
    /\ creations[i].pc = "sending"
    /\ IF ok
       THEN /\ heap' = Append(heap, NewTicket(creations[i].ch, creations[i].userTag))
            /\ formSends' = Append(formSends, 0)
            /\ activeTickets' = [activeTickets EXCEPT ![creations[i].ch] = Len(heap) + 1]
            /\ creations' = [creations EXCEPT ![i].pc = "registered"]
            /\ sent' = [sent EXCEPT ![creations[i].ch].greeting = @ + 1]
            /\ UNCHANGED stats
       ELSE /\ stats' = [stats EXCEPT !.errors = @ + 1]
            /\ creations' = [creations EXCEPT ![i].pc = "failed"]
            /\ UNCHANGED <<heap, formSends, activeTickets, sent>>
    /\ UNCHANGED <<events, TICKET_CATEGORY, listening, DEBUG_MODE, returned, probe, job, ignored, pendingClosures, closureTimers, closeFetching, closeSending>>

\* the resumption of handleUserMessage with the completion bookkeeping moved
\* out of the try block: it runs whether or not the send succeeded
FormSendDoneCompletesOnFailure(t, ok) ==
    /\ formSends[t] > 0
    /\ formSends' = [formSends EXCEPT ![t] = @ - 1]
    /\ heap' = [heap EXCEPT ![t].awaitingResponse = FALSE,
                            ![t].completedAt = TRUE,
                            ![t].followUps = IF ok THEN @ + 1 ELSE @,
                            ![t].timersScheduled = @ + 1]
    /\ stats' = [stats EXCEPT !.ticketsCompleted = @ + 1,
                              !.errors = IF ok THEN @ ELSE @ + 1]
    /\ closureTimers' = [closureTimers EXCEPT ![heap[t].channelId] = @ + 1]
    /\ sent' = [sent EXCEPT ![heap[t].channelId].form = IF ok THEN @ + 1 ELSE @]
    /\ UNCHANGED <<events, TICKET_CATEGORY, listening, DEBUG_MODE, returned, probe, job, ignored, activeTickets,
                   pendingClosures, creations, closeFetching, closeSending>>

\* the resumption of handleUserMessage without the setTimeout of line 408
FormSendDoneNoTimer(t, ok) ==
    /\ formSends[t] > 0
    /\ formSends' = [formSends EXCEPT ![t] = @ - 1]
    /\ IF ok
       THEN /\ heap' = [heap EXCEPT ![t].awaitingResponse = FALSE,
                                    ![t].completedAt = TRUE,
                                    ![t].followUps = @ + 1]
            /\ stats' = [stats EXCEPT !.ticketsCompleted = @ + 1]
            /\ sent' = [sent EXCEPT ![heap[t].channelId].form = @ + 1]
            /\ UNCHANGED closureTimers
       ELSE /\ stats' = [stats EXCEPT !.errors = @ + 1]
            /\ UNCHANGED <<heap, closureTimers, sent>>
    /\ UNCHANGED <<events, TICKET_CATEGORY, listening, DEBUG_MODE, returned, probe, job, ignored, activeTickets,
                   pendingClosures, creations, closeFetching, closeSending>>

\* the resumption of handleUserMessage with the setTimeout of line 408 moved
\* behind the try block: the closure is scheduled also when the send failed
FormSendDoneTimerOnFailure(t, ok) ==
    /\ formSends[t] > 0
    /\ formSends' = [formSends EXCEPT ![t] = @ - 1]
    /\ closureTimers' = [closureTimers EXCEPT ![heap[t].channelId] = @ + 1]
    /\ IF ok
       THEN /\ heap' = [heap EXCEPT ![t].awaitingResponse = FALSE,
                                    ![t].completedAt = TRUE,
                                    ![t].followUps = @ + 1,
                                    ![t].timersScheduled = @ + 1]
            /\ stats' = [stats EXCEPT !.ticketsCompleted = @ + 1]
            /\ sent' = [sent EXCEPT ![heap[t].channelId].form = @ + 1]
       ELSE /\ heap' = [heap EXCEPT ![t].timersScheduled = @ + 1]
            /\ stats' = [stats EXCEPT !.errors = @ + 1]
            /\ UNCHANGED sent
    /\ UNCHANGED <<events, TICKET_CATEGORY, listening, DEBUG_MODE, returned, probe, job, ignored, activeTickets,
                   pendingClosures, creations, closeFetching, closeSending>>

\* message.channel.send(FORM_MESSAGE) settles and handleUserMessage resumes
\* with its captured ticket object t
FormSendDone(t, ok) ==
    /\ formSends[t] > 0
    /\ formSends' = [formSends EXCEPT ![t] = @ - 1]
    /\ IF ok
       THEN /\ heap' = [heap EXCEPT ![t].awaitingResponse = FALSE,
                                    ![t].completedAt = TRUE,
                                    ![t].followUps = @ + 1,
                                    ![t].timersScheduled = @ + 1]
            /\ stats' = [stats EXCEPT !.ticketsCompleted = @ + 1]
            /\ closureTimers' = [closureTimers EXCEPT ![heap[t].channelId] = @ + 1]
            /\ sent' = [sent EXCEPT ![heap[t].channelId].form = @ + 1]
       ELSE /\ stats' = [stats EXCEPT !.errors = @ + 1]
            /\ UNCHANGED <<heap, closureTimers, sent>>
    /\ UNCHANGED <<events, TICKET_CATEGORY, listening, DEBUG_MODE, returned, probe, job, ignored, activeTickets, pendingClosures, creations,
                   closeFetching, closeSending>>

\* the closure setTimeout callback: closeTicket(channelId) up to its first await
ClosureTimerFire(c, cached) ==
    /\ closureTimers[c] > 0
    /\ closureTimers' = [closureTimers EXCEPT ![c] = @ - 1]
    /\ IF cached
       THEN closeSending' = [closeSending EXCEPT ![c] = @ + 1] /\ UNCHANGED closeFetching
       ELSE closeFetching' = [closeFetching EXCEPT ![c] = @ + 1] /\ UNCHANGED closeSending
    /\ UNCHANGED <<events, TICKET_CATEGORY, listening, DEBUG_MODE, returned, probe, job, ignored, activeTickets, heap, pendingClosures, stats, creations,
                   formSends, sent>>

\* client.channels.fetch(channelId) settles: a channel, nothing, or an error
CloseFetchDone(c, outcome) ==
    /\ closeFetching[c] > 0
    /\ closeFetching' = [closeFetching EXCEPT ![c] = @ - 1]
    /\ CASE outcome = "channel" ->
              closeSending' = [closeSending EXCEPT ![c] = @ + 1] /\ UNCHANGED stats
         [] outcome = "null" -> UNCHANGED <<closeSending, stats>>
         [] outcome = "throw" ->
              /\ stats' = [stats EXCEPT !.errors = @ + 1]
              /\ UNCHANGED closeSending
    /\ UNCHANGED <<events, TICKET_CATEGORY, listening, DEBUG_MODE, returned, probe, job, ignored, activeTickets, heap, pendingClosures, creations,
                   formSends, closureTimers, sent>>

\* the resumption of closeTicket dropping the channel's pendingClosures
\* entry instead of setting it
CloseSendDoneClearsPending(c, ok) ==
    /\ closeSending[c] > 0
    /\ closeSending' = [closeSending EXCEPT ![c] = @ - 1]
    /\ IF ok
       THEN /\ activeTickets' = [activeTickets EXCEPT ![c] = 0]
            /\ pendingClosures' = pendingClosures \ {c}
            /\ stats' = [stats EXCEPT !.ticketsClosed = @ + 1]
            /\ sent' = [sent EXCEPT ![c].close = @ + 1]
       ELSE /\ stats' = [stats EXCEPT !.errors = @ + 1]
            /\ UNCHANGED <<activeTickets, pendingClosures, sent>>
    /\ UNCHANGED <<events, TICKET_CATEGORY, listening, DEBUG_MODE, returned, probe, job, ignored, heap, creations, formSends, closureTimers, closeFetching>>

\* the resumption of closeTicket without the activeTickets.delete of line 463
CloseSendDoneKeepsTicket(c, ok) ==
    /\ closeSending[c] > 0
    /\ closeSending' = [closeSending EXCEPT ![c] = @ - 1]
    /\ IF ok
       THEN /\ pendingClosures' = pendingClosures \cup {c}
            /\ stats' = [stats EXCEPT !.ticketsClosed = @ + 1]
            /\ sent' = [sent EXCEPT ![c].close = @ + 1]
            /\ UNCHANGED activeTickets
       ELSE /\ stats' = [stats EXCEPT !.errors = @ + 1]
            /\ UNCHANGED <<activeTickets, pendingClosures, sent>>
    /\ UNCHANGED <<events, TICKET_CATEGORY, listening, DEBUG_MODE, returned, probe, job, ignored, heap, creations,
                   formSends, closureTimers, closeFetching>>

\* channel.send('$close') settles and closeTicket resumes
CloseSendDone(c, ok) ==
    /\ closeSending[c] > 0
    /\ closeSending' = [closeSending EXCEPT ![c] = @ - 1]
    /\ IF ok
       THEN /\ activeTickets' = [activeTickets EXCEPT ![c] = 0]
            /\ pendingClosures' = pendingClosures \cup {c}
            /\ stats' = [stats EXCEPT !.ticketsClosed = @ + 1]
            /\ sent' = [sent EXCEPT ![c].close = @ + 1]
       ELSE /\ stats' = [stats EXCEPT !.errors = @ + 1]
            /\ UNCHANGED <<activeTickets, pendingClosures, sent>>
    /\ UNCHANGED <<events, TICKET_CATEGORY, listening, DEBUG_MODE, returned, probe, job, ignored, heap, creations, formSends, closureTimers, closeFetching>>

Next ==
    \/ \E c \in Channels : ChannelCreate(c, parentId(c))
    \/ \E c \in Channels, m \in Messages : MessageCreate(c, m)
    \/ \E i \in CreationIds : FirstMessageTimeout(i)
    \/ \E i \in CreationIds, ok \in BOOLEAN : GreetingSendDone(i, ok)
    \/ \E t \in TicketIds, ok \in BOOLEAN : FormSendDone(t, ok)
    \/ \E c \in Channels, cached \in BOOLEAN : ClosureTimerFire(c, cached)
    \/ \E c \in Channels, o \in {"channel", "null", "throw"} : CloseFetchDone(c, o)
    \/ \E c \in Channels, ok \in BOOLEAN : CloseSendDone(c, ok)

Spec == Init /\ [][Next]_vars

\* client.once('ready'): new TicketSender(client) followed by init(); neither
\* looks at whether TICKET_CAT is set
Ready ==
    /\ ~listening
    /\ listening' = TRUE
    /\ UNCHANGED <<events, TICKET_CATEGORY, DEBUG_MODE, returned, probe, job, ignored, activeTickets, heap, pendingClosures,
                   stats, creations, formSends, closureTimers, closeFetching, closeSending,
                   sent>>

\* the process before the ready event, with TICKET_CAT set or missing
InitStartup ==
    /\ TICKET_CATEGORY \in {"cat1", "undefined"}
    /\ listening = FALSE
    /\ DEBUG_MODE = FALSE
    /\ Constructed
    /\ probe = NoProbe
    /\ job = NoJob

NextStartup == Ready \/ Next

SpecStartup == InitStartup /\ [][NextStartup]_vars

\* the controller running with DEBUG_MODE=true
InitDebug ==
    /\ TICKET_CATEGORY = "cat1"
    /\ listening = TRUE
    /\ DEBUG_MODE = TRUE
    /\ Constructed
    /\ probe = NoProbe
    /\ job = NoJob

SpecDebug == InitDebug /\ [][Next]_vars

\* The timers of Node.js fire: a first-message timeout that stays pending
\* (no message cleared it) runs its callback, and an awaited greeting send
\* settles, by returning or by throwing.
Fairness ==
    \A i \in 1..(MaxEvents + 1) :
        /\ WF_vars(i \in CreationIds /\ FirstMessageTimeout(i))
        /\ WF_vars(i \in CreationIds /\ \E ok \in BOOLEAN : GreetingSendDone(i, ok))

SpecLive == Init /\ [][Next]_vars /\ Fairness

\* ------------------------------------------------------------- monitoring
\* the object getStats builds: the counters spread into a new object, with the
\* sizes of the two Maps (uptime and the configuration block are left out:
\* they are not part of the ticket state)
getStats ==
    [ticketsCreated |-> stats.ticketsCreated, ticketsCompleted |-> stats.ticketsCompleted,
     ticketsClosed |-> stats.ticketsClosed, errors |-> stats.errors,
     activeTickets |-> Cardinality({c \in Channels : activeTickets[c] # 0}),
     pendingClosures |-> Cardinality(pendingClosures)]

\* the array getActiveTicketsInfo builds: per entry of activeTickets a new
\* object with the ticket's fields spread into it (indexed here by channel id)
getActiveTicketsInfo ==
    [c \in {d \in Channels : activeTickets[d] # 0} |-> heap[activeTickets[c]]]

\* the setInterval callback of init: logStatus() hands the sizes and the
\* counters to log(), which only serializes them
LogStatus ==
    /\ returned.kind = "none"
    /\ returned' = [NoValue EXCEPT !.kind = "logged"]
    /\ UNCHANGED <<TICKET_CATEGORY, listening, DEBUG_MODE, probe, job, ignored, activeTickets, heap,
                   pendingClosures, stats, creations, formSends, closureTimers,
                   closeFetching, closeSending, sent, events>>

\* a caller invokes getStats()
GetStats ==
    /\ returned.kind = "none"
    /\ returned' = [NoValue EXCEPT !.kind = "stats", !.stats = getStats]
    /\ UNCHANGED <<TICKET_CATEGORY, listening, DEBUG_MODE, probe, job, ignored, activeTickets, heap,
                   pendingClosures, stats, creations, formSends, closureTimers,
                   closeFetching, closeSending, sent, events>>

\* getActiveTicketsInfo pushing the ticket objects of the Map themselves
GetActiveTicketsInfoLive ==
    /\ returned.kind = "none"
    /\ returned' = [NoValue EXCEPT !.kind = "tickets", !.tickets = getActiveTicketsInfo,
                                   !.live = TRUE]
    /\ UNCHANGED <<TICKET_CATEGORY, listening, DEBUG_MODE, probe, job, ignored, activeTickets, heap,
                   pendingClosures, stats, creations, formSends, closureTimers,
                   closeFetching, closeSending, sent, events>>

\* a caller invokes getActiveTicketsInfo()
GetActiveTicketsInfo ==
    /\ returned.kind = "none"
    /\ returned' = [NoValue EXCEPT !.kind = "tickets", !.tickets = getActiveTicketsInfo]
    /\ UNCHANGED <<TICKET_CATEGORY, listening, DEBUG_MODE, probe, job, ignored, activeTickets, heap,
                   pendingClosures, stats, creations, formSends, closureTimers,
                   closeFetching, closeSending, sent, events>>

\* the fields of a ticket a caller may assign to
TicketFlags == {"awaitingResponse", "hasEvmAddress", "hasImage"}

\* the caller assigns to a field of an object it was handed: the write lands
\* in the controller's own object exactly when the two are the same object
CallerWrites(c, f) ==
    /\ returned.kind = "tickets"
    /\ ~returned.written
    /\ c \in DOMAIN returned.tickets
    /\ returned' = [returned EXCEPT !.tickets[c][f] = ~@, !.written = TRUE]
    /\ IF returned.live
       THEN heap' = [heap EXCEPT ![activeTickets[c]][f] = ~@]
       ELSE UNCHANGED heap
    /\ UNCHANGED <<TICKET_CATEGORY, listening, DEBUG_MODE, probe, job, ignored, activeTickets,
                   pendingClosures, stats, creations, formSends, closureTimers,
                   closeFetching, closeSending, sent, events>>

CallerWritesStats ==
    /\ returned.kind = "stats"
    /\ ~returned.written
    /\ returned' = [returned EXCEPT !.stats.errors = @ + 1, !.written = TRUE]
    /\ IF returned.live
       THEN stats' = [stats EXCEPT !.errors = @ + 1]
       ELSE UNCHANGED stats
    /\ UNCHANGED <<TICKET_CATEGORY, listening, DEBUG_MODE, probe, job, ignored, activeTickets, heap,
                   pendingClosures, creations, formSends, closureTimers,
                   closeFetching, closeSending, sent, events>>

\* the caller is done with what it was handed
CallerDrops ==
    /\ returned.kind # "none"
    /\ returned' = NoValue
    /\ UNCHANGED <<TICKET_CATEGORY, listening, DEBUG_MODE, probe, job, ignored, activeTickets, heap,
                   pendingClosures, stats, creations, formSends, closureTimers,
                   closeFetching, closeSending, sent, events>>

\* The monitoring methods are synchronous: a call, and what its synchronous
\* caller does with the result, run inside one task of the event loop, so no
\* handler runs while a result is held.
NextMonitor ==
    \/ returned.kind = "none" /\ Next
    \/ LogStatus
    \/ GetStats
    \/ GetActiveTicketsInfo
    \/ \E c \in Channels, f \in TicketFlags : CallerWrites(c, f)
    \/ CallerWritesStats
    \/ CallerDrops

SpecMonitor == Init /\ [][NextMonitor]_vars

\* ------------------------------------------------------ the pure helpers
\* messages for the helpers that read one message and nothing else:
\* extractUserTag and the two detections of handleUserMessage
ProbeAuthors == {"u1", "u2", "bot"}
ProbeMentions == {<< >>, <<"u1">>, <<"u2">>, <<"u1", "u2">>, <<"u2", "u1">>}

Hex(n, a, b) == [i \in 1..n |-> IF i % 2 = 0 THEN a ELSE b]
LowerAddress == <<"0", "x">> \o Hex(AddressDigits, "f", "3")
ProbeTexts ==
    {<< >>, Hello, Address, LowerAddress,
     Hello \o Address \o Hello,                                  \* inside other text
     Address \o <<" ">> \o LowerAddress,                         \* two addresses
     <<"0", "x">> \o Hex(AddressDigits - 1, "A", "9"),            \* one digit short
     <<"0", "x">> \o Hex(AddressDigits - 1, "A", "9") \o <<"g">>, \* 40th character not hex
     <<"0", "x">> \o Hex(AddressDigits + 1, "A", "9"),            \* one digit more
     <<"0", "X">> \o Hex(AddressDigits, "A", "9"),                \* capital X
     <<"x">> \o Hex(AddressDigits, "A", "9"),                     \* no leading 0
     <<"0", "x">> \o Address,                                    \* prefix twice
     <<"0", "x">> \o Hex(20, "A", "9") \o <<" ">> \o Hex(20, "A", "9")}  \* split by a blank

ProbeAttachments ==
    {<< >>, <<ImagePng>>, <<TextPlain>>, <<Null>>, <<TextPlain, ImagePng>>,
     <<Null, ImagePng>>, <<TextPlain, Null>>,
     <<ImagePrefix>>,                                    \* 'image/' and nothing after
     << <<"i", "m", "a", "g", "e">> >>,                  \* no slash
     << <<"I", "m", "a", "g", "e", "/", "p", "n", "g">> >>,   \* capital I
     << <<"x">> \o ImagePng >>,                          \* 'image/' not at the start
     << << >> >>}                                        \* empty string

ProbeMessages == [author : ProbeAuthors, mentions : ProbeMentions,
                  content : ProbeTexts, attachments : ProbeAttachments]

InitProbe ==
    /\ TICKET_CATEGORY = "cat1"
    /\ listening = TRUE
    /\ DEBUG_MODE = FALSE
    /\ Constructed
    /\ probe \in [step : {"input"}, tag : {""}, flag : {FALSE}, message : ProbeMessages]
    /\ job = NoJob

\* extractUserTag(message)
ProbeUserTag ==
    /\ probe.step = "input"
    /\ probe' = [probe EXCEPT !.step = "tag", !.tag = extractUserTag(probe.message)]
    /\ UNCHANGED <<TICKET_CATEGORY, listening, DEBUG_MODE, returned, job, ignored, activeTickets, heap,
                   pendingClosures, stats, creations, formSends, closureTimers,
                   closeFetching, closeSending, sent, events>>

\* hasNewEvmAddress of handleUserMessage for the message
ProbeAddress ==
    /\ probe.step = "input"
    /\ probe' = [probe EXCEPT !.step = "address", !.flag = DetectAddress(probe.message.content)]
    /\ UNCHANGED <<TICKET_CATEGORY, listening, DEBUG_MODE, returned, job, ignored, activeTickets, heap,
                   pendingClosures, stats, creations, formSends, closureTimers,
                   closeFetching, closeSending, sent, events>>

\* hasNewImage of handleUserMessage for the message
ProbeImage ==
    /\ probe.step = "input"
    /\ probe' = [probe EXCEPT !.step = "image", !.flag = DetectImage(probe.message.attachments)]
    /\ UNCHANGED <<TICKET_CATEGORY, listening, DEBUG_MODE, returned, job, ignored, activeTickets, heap,
                   pendingClosures, stats, creations, formSends, closureTimers,
                   closeFetching, closeSending, sent, events>>

NextProbe == ProbeUserTag \/ ProbeAddress \/ ProbeImage

SpecProbe == InitProbe /\ [][NextProbe]_vars

\* ------------------------------------------------------- the sheet export
\* rows of the sheet a run may fetch
MaxRows == 2

\* column D (user id) and column E (wallet address); "" is an empty cell
SheetUsers == {"", "u1", "u2"}
SheetAddresses == {"", "a1", "a2"}
\* the background colours of the cells D and E of a row, as earlier runs
\* leave them: untouched, wallet marked as duplicate, user marked as without
\* role, row exported (columns A-G) in amber or in blue
RowColors ==
    {[D |-> "none", E |-> "none"],
     [D |-> "none", E |-> "LIGHT_ORANGE"],
     [D |-> "LIGHT_RED", E |-> "none"],
     [D |-> "VERY_LIGHT_AMBER", E |-> "VERY_LIGHT_AMBER"],
     [D |-> "VERY_LIGHT_BLUE", E |-> "VERY_LIGHT_BLUE"]}
SheetRows == [userId : SheetUsers, evmAddress : SheetAddresses, colors : RowColors]
Sheets == UNION {[1..n -> SheetRows] : n \in 0..MaxRows}

\* the values counted by `if (addr) evmCount[addr] = ...` more than once
duplicateEvm(rows) ==
    {a \in {rows[i].evmAddress : i \in DOMAIN rows} :
        a # "" /\ Cardinality({i \in DOMAIN rows : rows[i].evmAddress = a}) > 1}

duplicateUserIds(rows) ==
    {u \in {rows[i].userId : i \in DOMAIN rows} :
        u # "" /\ Cardinality({i \in DOMAIN rows : rows[i].userId = u}) > 1}

\* colorCells.some(cell => isColor(cell, ...)) over the four colours
hasColoredCell(row) == row.colors.D # "none" \/ row.colors.E # "none"

\* the colour requests of step 2: column E of every row with a duplicate wallet
walletRequests(rows) ==
    {<<i, "E", "LIGHT_ORANGE">> : i \in
        {j \in DOMAIN rows : /\ rows[j].evmAddress \in duplicateEvm(rows)
                             /\ rows[j].colors.E \notin {"LIGHT_ORANGE", "LIGHT_RED"}}}

\* the first pass from row i on: rows with a coloured cell are skipped, a row
\* whose user id was seen in an earlier uncoloured row is marked, the others
\* are collected
RECURSIVE FirstPass(_, _, _, _, _)
FirstPass(rows, i, seenUserIds, valid, requests) ==
    IF i > Len(rows) THEN [valid |-> valid, requests |-> requests]
    ELSE IF hasColoredCell(rows[i]) THEN FirstPass(rows, i + 1, seenUserIds, valid, requests)
    ELSE IF rows[i].userId \in seenUserIds
         THEN FirstPass(rows, i + 1, seenUserIds, valid,
                        requests \cup {<<i, "D", "LIGHT_ORANGE">>})
    ELSE FirstPass(rows, i + 1, seenUserIds \cup {rows[i].userId}, Append(valid, i), requests)

\* the entries of finalValidEntries from position k on that pass the
\* duplicate filter, in order
RECURSIVE Selected(_, _, _)
Selected(rows, final, k) ==
    IF k > Len(final) THEN << >>
    ELSE IF /\ rows[final[k]].evmAddress \notin duplicateEvm(rows)
            /\ rows[final[k]].userId \notin duplicateUserIds(rows)
         THEN <<final[k]>> \o Selected(rows, final, k + 1)
    ELSE Selected(rows, final, k + 1)

\* the colour of the last row that has an export colour, scanning from row i up
RECURSIVE lastExportColor(_, _)
lastExportColor(rows, i) ==
    IF i = 0 THEN "none"
    ELSE IF "VERY_LIGHT_AMBER" \in {rows[i].colors.D, rows[i].colors.E} THEN "VERY_LIGHT_AMBER"
    ELSE IF "VERY_LIGHT_BLUE" \in {rows[i].colors.D, rows[i].colors.E} THEN "VERY_LIGHT_BLUE"
    ELSE lastExportColor(rows, i - 1)

currentExportColor(rows) ==
    IF lastExportColor(rows, Len(rows)) = "VERY_LIGHT_AMBER"
    THEN "VERY_LIGHT_BLUE" ELSE "VERY_LIGHT_AMBER"

\* the cron callback ran processSheetAndExport up to the point where the
\* rows and their colours are fetched
InitExport ==
    /\ TICKET_CATEGORY = "cat1"
    /\ listening = TRUE
    /\ DEBUG_MODE = FALSE
    /\ Constructed
    /\ probe = NoProbe
    /\ job \in {[NoJob EXCEPT !.pc = "fetched", !.rows = sh] : sh \in Sheets}

\* step 1, step 2 and the first pass, up to the first await of userHasRole
CollectValid ==
    /\ job.pc = "fetched"
    /\ LET fp == FirstPass(job.rows, 1, {}, << >>, walletRequests(job.rows))
       IN  job' = [job EXCEPT !.pc = "roles", !.valid = fp.valid, !.next = 1,
                              !.requests = fp.requests]
    /\ UNCHANGED <<TICKET_CATEGORY, listening, DEBUG_MODE, returned, probe, ignored, activeTickets,
                   heap, pendingClosures, stats, creations, formSends, closureTimers,
                   closeFetching, closeSending, sent, events>>

\* userHasRole answers for the next collected entry
RoleCheck(hasRole) ==
    /\ job.pc = "roles"
    /\ job.next <= Len(job.valid)
    /\ job' = [job EXCEPT
           !.next = @ + 1,
           !.final = IF hasRole THEN Append(@, job.valid[job.next]) ELSE @,
           !.requests = IF hasRole THEN @
                        ELSE @ \cup {<<job.valid[job.next], "D", "LIGHT_RED">>}]
    /\ UNCHANGED <<TICKET_CATEGORY, listening, DEBUG_MODE, returned, probe, ignored, activeTickets,
                   heap, pendingClosures, stats, creations, formSends, closureTimers,
                   closeFetching, closeSending, sent, events>>

\* the batchUpdate of the colour requests settles (it is only called when
\* there are requests); then the entries to export and their colour are
\* computed, up to the await of the file send
ApplyRequests(ok) ==
    /\ job.pc = "roles"
    /\ job.next > Len(job.valid)
    /\ (job.requests = {}) => ok
    /\ IF ~ok THEN job' = [job EXCEPT !.pc = "aborted"]
       ELSE LET sel == Selected(job.rows, job.final, 1)
            IN  job' = [job EXCEPT
                    !.marks = job.requests,
                    !.exportRowIndices = sel,
                    !.exportValues = [k \in 1..Len(sel) |-> job.rows[sel[k]].evmAddress],
                    !.currentExportColor = currentExportColor(job.rows),
                    !.pc = IF Len(sel) > 0 THEN "sending" ELSE "done"]
    /\ UNCHANGED <<TICKET_CATEGORY, listening, DEBUG_MODE, returned, probe, ignored, activeTickets,
                   heap, pendingClosures, stats, creations, formSends, closureTimers,
                   closeFetching, closeSending, sent, events>>

\* channel.send({ files: [attachment] }) settles
SendFile(ok) ==
    /\ job.pc = "sending"
    /\ job' = IF ok THEN [job EXCEPT !.file = job.exportValues, !.pc = "summary"]
              ELSE [job EXCEPT !.pc = "aborted"]
    /\ UNCHANGED <<TICKET_CATEGORY, listening, DEBUG_MODE, returned, probe, ignored, activeTickets,
                   heap, pendingClosures, stats, creations, formSends, closureTimers,
                   closeFetching, closeSending, sent, events>>

\* channel.send(summaryMsg) settles; the exported rows are then coloured
SendSummary(ok) ==
    /\ job.pc = "summary"
    /\ job' = IF ok THEN [job EXCEPT !.summaries = @ + 1, !.pc = "colouring"]
              ELSE [job EXCEPT !.pc = "aborted"]
    /\ UNCHANGED <<TICKET_CATEGORY, listening, DEBUG_MODE, returned, probe, ignored, activeTickets,
                   heap, pendingClosures, stats, creations, formSends, closureTimers,
                   closeFetching, closeSending, sent, events>>

\* the batchUpdate that colours the exported rows settles
ColourExported(ok) ==
    /\ job.pc = "colouring"
    /\ job' = IF ok
              THEN [job EXCEPT
                       !.marks = @ \cup {<<job.exportRowIndices[k], "A-G", job.currentExportColor>> :
                                            k \in 1..Len(job.exportRowIndices)},
                       !.pc = "done"]
              ELSE [job EXCEPT !.pc = "aborted"]
    /\ UNCHANGED <<TICKET_CATEGORY, listening, DEBUG_MODE, returned, probe, ignored, activeTickets,
                   heap, pendingClosures, stats, creations, formSends, closureTimers,
                   closeFetching, closeSending, sent, events>>

NextExport ==
    \/ CollectValid
    \/ \E hasRole \in BOOLEAN : RoleCheck(hasRole)
    \/ \E ok \in BOOLEAN : ApplyRequests(ok)
    \/ \E ok \in BOOLEAN : SendFile(ok)
    \/ \E ok \in BOOLEAN : SendSummary(ok)
    \/ \E ok \in BOOLEAN : ColourExported(ok)

SpecExport == InitExport /\ [][NextExport]_vars

\* ------------------------------------------------------- derived notions
\* the ticket object tracked under channel c (only where activeTickets[c] # 0)
Tracked(c) == heap[activeTickets[c]]

\* closeTicket invocations of channel c that have not returned
Closing(c) == closeFetching[c] + closeSending[c]

\* handleChannelCreation invocations of channel c
CreationsOf(c) == {i \in CreationIds : creations[i].ch = c}

\* channel c has a first-message wait that has not resolved
WaitPending(c) == \E i \in CreationsOf(c) : creations[i].pc = "waiting"

\* the evidence flags of the ticket tracked under c once message m is merged
\* (the text is read only when it is present)
AddressAfter(c, m) ==
    Tracked(c).hasEvmAddress \/ (m.content # Null /\ DetectAddress(m.content))

ImageAfter(c, m) == Tracked(c).hasImage \/ DetectImage(m.attachments)

\* handleUserMessage(m) on channel c suspends in a new FORM_MESSAGE send
StartsFollowUp(c, m) ==
    HandleUserMessageSync(c, m).formSends[activeTickets[c]] = formSends[activeTickets[c]] + 1

\* channel c has a ticket that is still awaiting a response
Awaiting(c) == activeTickets[c] # 0 /\ Tracked(c).awaitingResponse

\* a step that changes what handleUserMessage reads
RegistryChanged ==
    <<heap, activeTickets, formSends>>' # <<heap, activeTickets, formSends>>

\* ---------------------------------------------------------------- claims

\* C1: every ticket gets the follow-up notice (FORM_MESSAGE) at most once,
\* whatever messages arrive while an earlier follow-up send is outstanding.
C1_FollowUpSentOnce ==
    \A t \in TicketIds : heap[t].followUps <= 1

\* C2: a completed ticket has exactly one closure timer scheduled for it, so
\* closeTicket is invoked once for its channel.
C2_OneClosureTimerPerTicket ==
    \A t \in TicketIds :
        /\ heap[t].timersScheduled <= 1
        /\ (~heap[t].awaitingResponse) => heap[t].timersScheduled = 1

\* C3: whenever a closeTicket(channelId) invocation returns, whatever its
\* outcome, activeTickets has no entry for channelId.
C3_ClosedWhateverOutcome ==
    [][\A c \in Channels : Closing(c)' < Closing(c) => activeTickets'[c] = 0]_vars

\* C4: a channel-created event for a channel that already has a pending
\* first-message wait or a registered ticket starts no further wait, sends
\* no further greeting and never replaces the registered ticket record.
C4_DuplicateCreateIsNoOp ==
    [][\A c \in Channels :
        /\ (WaitPending(c) \/ activeTickets[c] # 0)
               => Cardinality(CreationsOf(c))' = Cardinality(CreationsOf(c))
        /\ (activeTickets[c] # 0 /\ activeTickets'[c] # 0)
               => activeTickets'[c] = activeTickets[c]
        /\ sent'[c].greeting <= 1]_vars

\* C5: no first-message wait is ever resolved by a message of an automated
\* author: every wait that went on to the greeting was resolved by a human.
C5_BotNeverFirstMessage ==
    \A i \in CreationIds :
        creations[i].pc \in {"sending", "registered"} => ~creations[i].bot

\* C6: for the ticket tracked under a channel id, hasEvmAddress and hasImage
\* never go from true to false while the channel stays tracked.
C6_FlagsMonotone ==
    [][\A c \in Channels :
        (activeTickets[c] # 0 /\ activeTickets'[c] # 0) =>
            /\ Tracked(c).hasEvmAddress => Tracked(c)'.hasEvmAddress
            /\ Tracked(c).hasImage => Tracked(c)'.hasImage]_vars

\* C7 (as claimed): a tracked ticket is completed (awaitingResponse = false
\* and completedAt set) if and only if both evidence flags are true.
C7_CompletedIffBothFlags ==
    \A c \in Channels : activeTickets[c] # 0 =>
        ((~Tracked(c).awaitingResponse /\ Tracked(c).completedAt)
            <=> (Tracked(c).hasEvmAddress /\ Tracked(c).hasImage))

\* C7 (amended): a ticket is no longer awaiting a response exactly when its
\* completedAt is set, and a completed ticket has both evidence flags true.
C7_CompletedImpliesBothFlags ==
    \A t \in TicketIds :
        /\ (~heap[t].awaitingResponse) <=> heap[t].completedAt
        /\ (~heap[t].awaitingResponse) => (heap[t].hasEvmAddress /\ heap[t].hasImage)

\* C7 witness: a tracked ticket that completed with both flags true.
C7_Witness ==
    \E c \in Channels :
        /\ activeTickets[c] # 0
        /\ ~Tracked(c).awaitingResponse
        /\ Tracked(c).completedAt
        /\ Tracked(c).hasEvmAddress /\ Tracked(c).hasImage

\* C8: messages of one channel are handled one after another, and a
\* follow-up send is started only by a message that turns an evidence flag
\* of the ticket from false to true.
C8_OnlyLastEvidenceTriggers ==
    [][\A t \in TicketIds :
        formSends'[t] > formSends[t] =>
            /\ formSends[t] = 0
            /\ \/ (~heap[t].hasEvmAddress /\ heap'[t].hasEvmAddress)
               \/ (~heap[t].hasImage /\ heap'[t].hasImage)]_vars

\* C9: once the ticket of a channel is gone from the registry, no closure
\* timer is left pending for that channel (it was canceled).
C9_TimerCanceledWithTicket ==
    \A c \in Channels : activeTickets[c] = 0 => closureTimers[c] = 0

\* every first-message wait started for channel c ended by its timeout
AllTimedOut(c) ==
    /\ CreationsOf(c) # {}
    /\ \A i \in CreationsOf(c) : creations[i].pc = "timedout"

\* C10: the first-message listeners still registered on the client are
\* exactly those of the waits that have not resolved.
C10_ListenersAreUnresolvedWaits ==
    \A i \in CreationIds : creations[i].listener <=> creations[i].pc = "waiting"

\* C11: once the waits of a channel have ended by their timeout, the channel
\* has no greeting and no ticket, and as long as no new channel-created event
\* arrives for it every later step (messages included) leaves it that way:
\* the waits stay timed out, no greeting is sent, no ticket is registered.
C11_TimedOutChannelStaysUntracked ==
    [][\A c \in Channels :
        AllTimedOut(c) =>
            /\ activeTickets[c] = 0
            /\ sent[c].greeting = 0
            /\ \A t \in TicketIds : heap[t].channelId # c
            /\ (CreationsOf(c)' = CreationsOf(c)) =>
                   /\ AllTimedOut(c)'
                   /\ activeTickets'[c] = 0
                   /\ sent'[c] = sent[c]
                   /\ \A t \in 1..Len(heap') : heap'[t].channelId # c]_vars

\* C11 witness: a wait timed out and a later message on its channel was
\* dispatched to its leftover listener.
C11_Witness ==
    \E i \in CreationIds :
        /\ creations[i].pc = "timedout"
        /\ ~creations[i].listener
        /\ AllTimedOut(creations[i].ch)

\* C12: on a tracked, awaiting ticket every non-automated message, also one
\* whose text is absent or whose attachment list is empty, is handled without
\* an error, and the evidence its other field carries is merged.
C12_MissingFieldsAreNoError ==
    \A c \in Channels : \A m \in Messages :
        (~IsBot(m) /\ activeTickets[c] # 0 /\ Tracked(c).awaitingResponse) =>
            LET r == HandleUserMessageSync(c, m)
                t == activeTickets[c]
            IN  /\ r.errors = 0
                /\ DetectImage(m.attachments) => r.heap[t].hasImage
                /\ (m.content # Null /\ DetectAddress(m.content)) => r.heap[t].hasEvmAddress

\* C13: with TICKET_CAT missing the controller does not start: no listener
\* is registered and no channel-created event is processed as a ticket.
C13_NoStartWithoutCategory ==
    TICKET_CATEGORY = "undefined" => (~listening /\ creations = << >>)

\* C14: a failed follow-up send changes nothing but the error count: the
\* ticket record, its registry entry, ticketsCompleted and the closure timers
\* stay as they were; and on a ticket that has both flags true and is still
\* awaiting, every non-automated message with a text starts the send again.
C14_FailedFollowUpIsRetried ==
    [][/\ \A t \in TicketIds :
            (formSends'[t] < formSends[t] /\ heap'[t].followUps = heap[t].followUps) =>
                /\ heap'[t] = heap[t]
                /\ activeTickets' = activeTickets
                /\ stats'.ticketsCompleted = stats.ticketsCompleted
                /\ stats'.errors = stats.errors + 1
                /\ closureTimers' = closureTimers
                /\ sent' = sent
       /\ \A c \in Channels :
            (RegistryChanged /\ (Awaiting(c) /\ Tracked(c).hasEvmAddress /\ Tracked(c).hasImage)') =>
                \A m \in Messages :
                    (~IsBot(m) /\ m.content # Null) => StartsFollowUp(c, m)']_vars

\* C14 witness: the only follow-up send of a tracked ticket failed; the
\* ticket has both flags, still awaits, and has no closure timer.
C14_Witness ==
    \E c \in Channels :
        /\ Awaiting(c)
        /\ Tracked(c).hasEvmAddress /\ Tracked(c).hasImage
        /\ formSends[activeTickets[c]] = 0
        /\ Tracked(c).followUps = 0
        /\ stats.errors = 1
        /\ stats.ticketsCompleted = 0
        /\ closureTimers[c] = 0

C16_GreetingRegistersFreshTicket ==
    [][\A i \in CreationIds :
        LET c == creations[i].ch IN
        /\ (creations[i].pc = "waiting" /\ creations'[i].pc = "sending") =>
               /\ sent' = sent
               /\ activeTickets' = activeTickets
               /\ Len(heap') = Len(heap)
               /\ activeTickets[c] = 0 => heap' = heap
        /\ (creations[i].pc = "sending" /\ creations'[i].pc = "registered") =>
               /\ sent'[c].greeting = sent[c].greeting + 1
               /\ activeTickets'[c] = Len(heap) + 1
               /\ Len(heap') = Len(heap) + 1
               /\ heap'[activeTickets'[c]].channelId = c
               /\ heap'[activeTickets'[c]].userTag = creations[i].userTag
               /\ heap'[activeTickets'[c]].awaitingResponse
               /\ ~heap'[activeTickets'[c]].hasEvmAddress
               /\ ~heap'[activeTickets'[c]].hasImage
               /\ formSends'[activeTickets'[c]] = 0]_vars

\* C16 witness: a greeted channel with its freshly registered ticket.
C16_Witness ==
    \E i \in CreationIds :
        /\ creations[i].pc = "registered"
        /\ sent[creations[i].ch].greeting = 1
        /\ Awaiting(creations[i].ch)
        /\ ~Tracked(creations[i].ch).hasEvmAddress
        /\ ~Tracked(creations[i].ch).hasImage

\* C17: on an awaiting ticket the message that makes both flags true, in
\* whichever order the evidence came, starts the follow-up send; when that
\* send succeeds awaitingResponse is false, completedAt is set,
\* ticketsCompleted has grown by one and one closure timer is scheduled.
C17_CompletesOnLastEvidence ==
    [][/\ \A c \in Channels :
            (RegistryChanged /\ Awaiting(c)') =>
                \A m \in Messages :
                    (~IsBot(m) /\ m.content # Null /\ AddressAfter(c, m)' /\ ImageAfter(c, m)')
                        => StartsFollowUp(c, m)'
       /\ \A t \in TicketIds :
            heap'[t].followUps > heap[t].followUps =>
                /\ ~heap'[t].awaitingResponse
                /\ heap'[t].completedAt
                /\ stats'.ticketsCompleted = stats.ticketsCompleted + 1
                /\ closureTimers'[heap[t].channelId] = closureTimers[heap[t].channelId] + 1
                /\ sent'[heap[t].channelId].form = sent[heap[t].channelId].form + 1]_vars

\* C17 witness: a ticket completed by its follow-up, its closure timer set.
C17_Witness ==
    \E t \in TicketIds :
        /\ heap[t].followUps = 1
        /\ ~heap[t].awaitingResponse
        /\ heap[t].hasEvmAddress /\ heap[t].hasImage
        /\ closureTimers[heap[t].channelId] = 1
        /\ stats.ticketsCompleted = 1

\* C18: a non-automated message that leaves a flag of the awaiting ticket
\* false starts no send and leaves the ticket awaiting, also when it newly
\* sets the other flag; and the step that merges it sends nothing and
\* schedules no timer.
C18_PartialEvidenceIsSilent ==
    [][/\ \A c \in Channels :
            (RegistryChanged /\ Awaiting(c)') =>
                \A m \in Messages :
                    (~IsBot(m) /\ ~(AddressAfter(c, m)' /\ ImageAfter(c, m)')) =>
                        /\ HandleUserMessageSync(c, m)'.formSends = formSends'
                        /\ HandleUserMessageSync(c, m)'.heap[activeTickets'[c]].awaitingResponse
       /\ \A t \in TicketIds :
            /\ formSends'[t] > formSends[t] => (heap'[t].hasEvmAddress /\ heap'[t].hasImage)
            /\ (/\ heap'[t] # heap[t]
                /\ heap'[t].followUps = heap[t].followUps
                /\ ~(heap'[t].hasEvmAddress /\ heap'[t].hasImage)) =>
                    /\ heap'[t].awaitingResponse
                    /\ formSends' = formSends
                    /\ sent' = sent
                    /\ closureTimers' = closureTimers]_vars

\* C18 witness: a message set one flag of an awaiting ticket, the other is
\* still false, and nothing was sent for it.
C18_Witness ==
    \E c \in Channels :
        /\ Awaiting(c)
        /\ Tracked(c).hasEvmAddress # Tracked(c).hasImage
        /\ formSends[activeTickets[c]] = 0
        /\ sent[c].form = 0
        /\ closureTimers[c] = 0

\* C19: a channel created under another category than the target never has
\* a first-message wait, a ticket, a greeting or any other message from the
\* controller, or a closure timer; its channel-created event is not counted,
\* and a later message on it changes no ticket and resolves no wait.
C19_NonTargetChannelUntracked ==
    \A c \in Channels :
        parentId(c) # TICKET_CATEGORY =>
            /\ CreationsOf(c) = {}
            /\ stats.ticketsCreated = Len(creations)
            /\ activeTickets[c] = 0
            /\ \A t \in TicketIds : heap[t].channelId # c
            /\ sent[c] = [greeting |-> 0, form |-> 0, close |-> 0]
            /\ closureTimers[c] = 0
            /\ Closing(c) = 0
            /\ c \notin pendingClosures
            /\ \A m \in Messages :
                   /\ HandleUserMessageSync(c, m) =
                          [heap |-> heap, formSends |-> formSends, errors |-> 0]
                   /\ \A i \in CreationIds : MessageHandler(creations[i], c, m) = creations[i]

\* C19 witness: the channel-created event of a channel of another category
\* was dropped by the category check while another channel got its ticket.
C19_Witness ==
    \E c \in ignored :
        /\ parentId(c) # TICKET_CATEGORY
        /\ activeTickets[c] = 0
        /\ \E d \in Channels : activeTickets[d] # 0

\* C20: no ticket record is installed under a channel id while a live record
\* for that id is in the registry.
C20_NoInstallOverLiveRecord ==
    [][\A c \in Channels :
        activeTickets[c] # 0 => activeTickets'[c] \in {0, activeTickets[c]}]_vars

\* C21: handleUserMessage on a message of an automated author changes no
\* ticket record (flags, awaitingResponse, completedAt), starts no follow-up
\* send (so no closure is scheduled for it) and logs no error, whatever the
\* message carries and whatever state the channel's ticket is in.
C21_BotMessageIsNoEvidence ==
    \A c \in Channels, m \in Messages :
        IsBot(m) =>
            HandleUserMessageSync(c, m) =
                [heap |-> heap, formSends |-> formSends, errors |-> 0]

\* C21 witness: a message of an automated author was dispatched on a channel
\* whose ticket awaits evidence (it resolved a later wait of that channel);
\* the ticket still has neither flag, though the same message from a human
\* with an address and an image would have started the follow-up.
C21_Witness ==
    \E c \in Channels, i \in CreationIds, m \in Messages :
        /\ creations[i].ch = c /\ creations[i].bot
        /\ Awaiting(c)
        /\ ~Tracked(c).hasEvmAddress /\ ~Tracked(c).hasImage
        /\ IsBot(m) /\ m.content # Null
        /\ DetectAddress(m.content) /\ DetectImage(m.attachments)
        /\ StartsFollowUp(c, [m EXCEPT !.author = "u1"])

\* C22: while a send for channel a is outstanding, a channel-created or
\* message-created event of any other channel b is dispatched and handled up
\* to its own first await: the wait of b resolves and goes on to the
\* greeting send, and evidence for b's awaiting ticket is merged and starts
\* the follow-up.  (Events are counted up to MaxEvents.)
C22_OtherChannelsNotBlocked ==
    \A a \in Channels, b \in Channels :
        (a # b /\ SendOutstanding(a) /\ events < MaxEvents) =>
            /\ ENABLED ChannelCreate(b, parentId(b))
            /\ \A m \in Messages :
                   /\ ENABLED MessageCreate(b, m)
                   /\ \A i \in CreationsOf(b) :
                          (creations[i].pc = "waiting" /\ m.content # Null) =>
                              MessageHandler(creations[i], b, m).pc = "sending"
                   /\ (/\ Awaiting(b) /\ ~IsBot(m) /\ m.content # Null
                       /\ AddressAfter(b, m) /\ ImageAfter(b, m)) => StartsFollowUp(b, m)

\* C22 witness: greeting sends of two channels are outstanding together, so
\* the first message of one was handled while the other's send was in flight.
C22_Witness ==
    \E a \in Channels, b \in Channels :
        /\ a # b
        /\ \E i \in CreationsOf(a) : creations[i].pc = "sending"
        /\ \E j \in CreationsOf(b) : creations[j].pc = "sending"

\* handleChannelCreation invocations of channel c that registered a ticket
RegisteredOf(c) == {i \in CreationsOf(c) : creations[i].pc = "registered"}

\* C23: a first-message wait leaves its pending state once and for good, by
\* exactly one of its two outcomes: a wait the timeout resolved stays that way
\* whatever messages follow, a wait a message resolved never gets the
\* 'no first message' outcome, and greetings and tickets come only from
\* waits a message resolved (one each per such wait).
C23_WaitResolvesOnce ==
    [][/\ \A i \in CreationIds :
            /\ creations[i].pc = "timedout" => creations'[i].pc = "timedout"
            /\ creations[i].pc \in {"sending", "registered", "failed"} =>
                   creations'[i].pc \notin {"waiting", "timedout"}
            /\ creations[i].pc \in {"registered", "failed"} => creations'[i].pc = creations[i].pc
       /\ \A c \in Channels :
            /\ sent'[c].greeting = Cardinality(RegisteredOf(c)')
            /\ Cardinality({t \in 1..Len(heap') : heap'[t].channelId = c})
                   = Cardinality(RegisteredOf(c)')]_vars

\* C23 witness: the two outcomes side by side: one wait ended by its timeout
\* and a later message reached its leftover listener without effect, another
\* wait was resolved by a message and went on to its greeting and ticket.
C23_Witness ==
    \E i \in CreationIds, j \in CreationIds :
        /\ creations[i].pc = "timedout" /\ ~creations[i].listener
        /\ creations[j].pc = "registered"
        /\ sent[creations[j].ch].greeting = 1

\* C24: a call of logStatus, getStats or getActiveTicketsInfo, and anything
\* the caller then writes into what it was handed, leaves activeTickets,
\* every ticket record, pendingClosures and the counters unchanged; what is
\* handed out is a fresh object that carries the values of the moment of the
\* call and is never one of the controller's own records.
C24_MonitoringIsPureRead ==
    [][returned' # returned =>
        /\ UNCHANGED <<activeTickets, heap, pendingClosures, stats>>
        /\ ~returned'.live
        /\ (returned.kind = "none" /\ returned'.kind = "tickets") =>
               /\ DOMAIN returned'.tickets = {c \in Channels : activeTickets[c] # 0}
               /\ \A c \in DOMAIN returned'.tickets : returned'.tickets[c] = Tracked(c)
        /\ (returned.kind = "none" /\ returned'.kind = "stats") =>
               /\ returned'.stats.errors = stats.errors
               /\ returned'.stats.ticketsCreated = stats.ticketsCreated
               /\ returned'.stats.ticketsCompleted = stats.ticketsCompleted
               /\ returned'.stats.ticketsClosed = stats.ticketsClosed]_vars

\* C24 witness: a caller wrote into the entry getActiveTicketsInfo handed it
\* for a tracked channel, and the channel's ticket record no longer agrees
\* with that entry: the write stayed in the copy.
C24_Witness ==
    /\ returned.kind = "tickets"
    /\ returned.written
    /\ \E c \in DOMAIN returned.tickets :
           /\ activeTickets[c] # 0
           /\ returned.tickets[c] # Tracked(c)

\* C25: the requester tag extracted from a message is '<@id>' with id the
\* first mentioned user when the message mentions somebody, and the author
\* of the message otherwise.
C25_TagIsFirstMentionElseAuthor ==
    probe.step = "tag" =>
        LET m == probe.message
            id == IF m.mentions # << >> THEN Head(m.mentions) ELSE m.author
        IN  probe.tag = "<@" \o id \o ">"

\* C25 witness: a message that mentions two users, neither first nor second
\* being its author, was tagged with the first one.
C25_Witness ==
    /\ probe.step = "tag"
    /\ probe.message.author = "bot"
    /\ probe.message.mentions = <<"u2", "u1">>
    /\ probe.tag = "<@u2>"

\* C27: address detection answers true exactly for a text that contains
\* '0x' followed by 40 characters out of 0-9, a-f, A-F; the answer is a
\* single flag however many such substrings there are, and is the same for
\* every attachment list the message may carry.
C27_AddressIffPattern ==
    probe.step = "address" =>
        LET s == probe.message.content
            hex == {"0", "1", "2", "3", "4", "5", "6", "7", "8", "9",
                    "a", "b", "c", "d", "e", "f", "A", "B", "C", "D", "E", "F"}
            patternAt(i) == /\ i + 41 <= Len(s)
                            /\ SubSeq(s, i, i + 1) = <<"0", "x">>
                            /\ \A k \in (i + 2)..(i + 41) : s[k] \in hex
        IN  probe.flag <=> \E i \in 1..Len(s) : patternAt(i)

\* C27 witness: a text with two addresses, on a message that also carries
\* attachments, was detected as one true signal.
C27_Witness ==
    /\ probe.step = "address"
    /\ probe.flag
    /\ Len(evmMatches(probe.message.content)) = 2
    /\ probe.message.attachments = <<TextPlain, ImagePng>>

\* C28: image detection answers true exactly for a message with at least
\* one attachment whose declared content type begins with 'image/'; a
\* missing content type or another type never makes it true, and the answer
\* is the same for every text the message may carry.
C28_ImageIffImageType ==
    probe.step = "image" =>
        LET a == probe.message.attachments
            declaredImage(ct) == /\ ct # Null
                                 /\ Len(ct) >= 6
                                 /\ SubSeq(ct, 1, 6) = <<"i", "m", "a", "g", "e", "/">>
        IN  probe.flag <=> \E i \in 1..Len(a) : declaredImage(a[i])

\* C28 witness: an image found behind an attachment of another type, on a
\* message whose text holds an address.
C28_Witness ==
    /\ probe.step = "image"
    /\ probe.flag
    /\ probe.message.attachments = <<TextPlain, ImagePng>>
    /\ probe.message.content = Address

\* C26: the requester tag of the ticket tracked under a channel id is the
\* same after every step that leaves the channel tracked.
C26_UserTagNeverChanges ==
    [][\A c \in Channels :
        (activeTickets[c] # 0 /\ activeTickets'[c] # 0) =>
            Tracked(c)'.userTag = Tracked(c).userTag]_vars

\* C29: whenever closeTicket starts the send of '$close' to a channel, the
\* channel has a ticket in activeTickets and that ticket is completed
\* (awaitingResponse = false).
C29_CloseOnlyCompletedTracked ==
    [][\A c \in Channels :
        closeSending'[c] > closeSending[c] =>
            (activeTickets[c] # 0 /\ ~Tracked(c).awaitingResponse)]_vars

\* C30: while a channel has its greeting send outstanding and no ticket yet,
\* handleUserMessage changes nothing for any message on it, whatever the
\* message carries; and the ticket the channel then gets is registered with
\* both flags false and awaitingResponse = true.
C30_MessageBeforeGreetingIsDropped ==
    [][\A c \in Channels :
        (activeTickets[c] = 0 /\ \E i \in CreationsOf(c) : creations[i].pc = "sending") =>
            /\ \A m \in Messages :
                   HandleUserMessageSync(c, m) =
                       [heap |-> heap, formSends |-> formSends, errors |-> 0]
            /\ activeTickets'[c] # 0 =>
                   /\ ~Tracked(c)'.hasEvmAddress
                   /\ ~Tracked(c)'.hasImage
                   /\ Tracked(c)'.awaitingResponse]_vars

\* C30 witness: a message of a human author reached a channel while the
\* greeting send started by an earlier message was outstanding and no ticket
\* was registered (the two messages differ: each resolved another wait of
\* the channel), and the channel still has no ticket.
C30_Witness ==
    \E i \in CreationIds, j \in CreationIds :
        /\ i < j
        /\ creations[i].ch = creations[j].ch
        /\ creations[i].pc = "sending" /\ creations[i].bot
        /\ creations[j].pc = "sending" /\ ~creations[j].bot
        /\ activeTickets[creations[i].ch] = 0

\* every handleChannelCreation of channel c ended in its catch block
AllFailed(c) ==
    /\ CreationsOf(c) # {}
    /\ \A i \in CreationsOf(c) : creations[i].pc = "failed"

\* C31: the step in which a greeting send fails registers no ticket, sends
\* nothing and adds one to stats.errors; and a channel whose channel-created
\* events all ended in failure has no greeting, no ticket and no evidence
\* tracking (handleUserMessage changes nothing for any message), and stays
\* so in every later step as long as no new channel-created event arrives.
C31_FailedGreetingStaysUntracked ==
    [][/\ \A i \in CreationIds :
            (creations[i].pc = "sending" /\ creations'[i].pc = "failed") =>
                /\ activeTickets' = activeTickets
                /\ heap' = heap
                /\ sent' = sent
                /\ stats'.errors = stats.errors + 1
       /\ \A c \in Channels :
            AllFailed(c) =>
                /\ activeTickets[c] = 0
                /\ sent[c].greeting = 0
                /\ \A t \in TicketIds : heap[t].channelId # c
                /\ \A m \in Messages :
                       HandleUserMessageSync(c, m) =
                           [heap |-> heap, formSends |-> formSends, errors |-> 0]
                /\ (CreationsOf(c)' = CreationsOf(c)) =>
                       /\ AllFailed(c)'
                       /\ activeTickets'[c] = 0
                       /\ sent'[c] = sent[c]
                       /\ \A t \in 1..Len(heap') : heap'[t].channelId # c]_vars

\* C31 witness: the greeting send of a channel failed (its first message had
\* been read: the tag is extracted), the error is counted, and the channel
\* has no ticket.
C31_Witness ==
    \E i \in CreationIds :
        /\ creations[i].pc = "failed"
        /\ creations[i].userTag # ""
        /\ AllFailed(creations[i].ch)
        /\ stats.errors = 1
        /\ activeTickets[creations[i].ch] = 0

\* C32: the number of recorded completions never exceeds the number of
\* target-category channel-created events.
C32_CompletedAtMostCreated ==
    stats.ticketsCompleted <= stats.ticketsCreated

RECURSIVE SumOver(_, _)
SumOver(f, S) ==
    IF S = {} THEN 0
    ELSE LET c == CHOOSE x \in S : TRUE IN f[c] + SumOver(f, S \ {c})

\* closure timers not yet fired and closeTicket invocations that have not returned
ClosuresUnderWay ==
    SumOver(closureTimers, Channels) + SumOver(closeFetching, Channels)
        + SumOver(closeSending, Channels)

\* C33: the recorded closures, together with the closure timers still
\* pending and the closeTicket invocations still running, never exceed the
\* recorded completions: every closure comes from a timer that a recorded
\* completion scheduled, and a timer records at most one closure.
C33_ClosedAtMostCompleted ==
    stats.ticketsClosed + ClosuresUnderWay <= stats.ticketsCompleted

\* C33 witness: a completion was recorded and its timer led to the one
\* recorded closure.
C33_Witness ==
    /\ stats.ticketsClosed = 1
    /\ stats.ticketsCompleted = 1
    /\ ClosuresUnderWay = 0

\* C34: while the ticket tracked under a channel is completed
\* (awaitingResponse = false), handleUserMessage changes nothing for any
\* message on that channel, whoever wrote it and whatever it carries: no
\* field of any ticket, no new follow-up send (so no further timer and no
\* further completion), no error.
C34_CompletedTicketIgnoresMessages ==
    \A c \in Channels :
        (activeTickets[c] # 0 /\ ~Tracked(c).awaitingResponse) =>
            \A m \in Messages :
                HandleUserMessageSync(c, m) =
                    [heap |-> heap, formSends |-> formSends, errors |-> 0]

\* C34 witness: a completed ticket that is still tracked, its closure timer
\* pending and no follow-up send of it outstanding, on a channel where a
\* human message with an address and an image would otherwise count.
C34_Witness ==
    \E c \in Channels, m \in Messages :
        /\ activeTickets[c] # 0
        /\ ~Tracked(c).awaitingResponse
        /\ formSends[activeTickets[c]] = 0
        /\ closureTimers[c] = 1
        /\ ~IsBot(m) /\ m.content # Null
        /\ DetectAddress(m.content) /\ DetectImage(m.attachments)

\* C35: a channel has a closure timer, a running closeTicket or a '$close'
\* in it only if a follow-up notice was sent to it successfully before, and
\* never more of them than follow-up notices.
C35_CloseOnlyAfterFollowUp ==
    \A c \in Channels :
        closureTimers[c] + Closing(c) + sent[c].close <= sent[c].form

\* C35 witness: a channel that got its follow-up notice and then '$close'.
C35_Witness ==
    \E c \in Channels : sent[c].form = 1 /\ sent[c].close = 1

\* the ticket objects registered for channel c
TicketsOf(c) == {t \in TicketIds : heap[t].channelId = c}

\* a message-created event on channel a leaves channel b as it is: the
\* tickets of b, their suspended sends and the waits of b
MessageLeavesAlone(a, b) ==
    \A m \in Messages :
        /\ \A t \in TicketsOf(b) :
               /\ HandleUserMessageSync(a, m).heap[t] = heap[t]
               /\ HandleUserMessageSync(a, m).formSends[t] = formSends[t]
        /\ \A i \in CreationsOf(b) : MessageHandler(creations[i], a, m) = creations[i]

\* C36: after every step that changes a ticket, the registry or a wait, a
\* message on any channel a would leave every other channel b untouched
\* (b's tickets, b's first-message waits); a step that changes the ticket
\* tracked under one channel changes it under no other channel, and the
\* return of closeTicket(a) removes the registry entry of a only.
C36_ChannelsAreIndependent ==
    [][/\ (RegistryChanged \/ creations' # creations) =>
            \A a \in Channels, b \in Channels : a # b => MessageLeavesAlone(a, b)'
       /\ \A a \in Channels, b \in Channels :
            (a # b /\ activeTickets'[a] # activeTickets[a]) =>
                activeTickets'[b] = activeTickets[b]
       /\ \A a \in Channels :
            closeSending'[a] < closeSending[a] =>
                \A b \in Channels \ {a} :
                    /\ activeTickets'[b] = activeTickets[b]
                    /\ sent'[b] = sent[b]
                    /\ (b \in pendingClosures') = (b \in pendingClosures)]_vars

\* C36 witness: a message resolved the wait of one channel, which went on to
\* its greeting, while the wait of another channel, started before it, is
\* still pending.
C36_Witness ==
    \E i \in CreationIds, j \in CreationIds :
        /\ i < j
        /\ creations[i].ch # creations[j].ch
        /\ creations[i].pc = "waiting"
        /\ creations[j].pc \in {"sending", "registered"}

\* handleChannelCreation invocation i has returned
Finished(i) ==
    i \in CreationIds /\ creations[i].pc \in {"registered", "failed", "timedout"}

\* C37: every first-message wait that is pending is eventually resolved, by
\* a message of its channel or by its timeout, and the handleChannelCreation
\* invocation it belongs to eventually returns (the greeting send settling).
C37_WaitEventuallyResolves ==
    \A i \in 1..(MaxEvents + 1) :
        (i \in CreationIds /\ creations[i].pc = "waiting") ~> Finished(i)

\* C37 witness: both ways out: one invocation finished by the timeout of its
\* wait, another after a message resolved its wait.
C37_Witness ==
    \E i \in CreationIds, j \in CreationIds :
        /\ creations[i].pc = "timedout"
        /\ creations[i].listener
        /\ creations[j].pc \in {"registered", "failed"}
        /\ creations[j].userTag # ""

\* C38: ticketsCreated is the number of target-category channel-created
\* events handled so far: a step that starts a wait adds exactly one to it,
\* at once, and no other step changes it, so waits that time out and
\* greetings that fail are counted too; it is never less than the number of
\* tickets ever registered.
C38_CreatedCountsEveryTargetEvent ==
    [][/\ stats'.ticketsCreated = Len(creations')
       /\ Len(creations') = Len(creations) + 1 =>
              /\ stats'.ticketsCreated = stats.ticketsCreated + 1
              /\ creations'[Len(creations')].pc = "waiting"
       /\ Len(creations') = Len(creations) => stats'.ticketsCreated = stats.ticketsCreated
       /\ Len(heap') <= stats'.ticketsCreated]_vars

\* C38 witness: two events counted, one whose wait timed out and one whose
\* greeting send failed, and no ticket registered.
C38_Witness ==
    /\ stats.ticketsCreated = 2
    /\ Len(heap) = 0
    /\ \E i \in CreationIds, j \in CreationIds :
           /\ creations[i].pc = "timedout"
           /\ creations[j].pc = "failed" /\ creations[j].userTag # ""

RowsWith(f, v) == {i \in DOMAIN job.rows : job.rows[i][f] = v}

====
